---- MODULE Spec2Model ----
(***************************************************************************)
(* Model of hack/bump_up_version.py: validation of the two version         *)
(* arguments, generation of one patch file per registered repository from  *)
(* its template, and the sequence of git commands run per repository.      *)
(*                                                                         *)
(* Python str values are TLA+ strings; TLC evaluates Len, \o and SubSeq on *)
(* them character by character.                                            *)
(***************************************************************************)
EXTENDS Integers, Sequences, FiniteSets, TLC

VARIABLES
    argv,              \* sys.argv, argv[1] is the program name
    template_files,    \* readable template files: path -> text
    pc,                \* position in the __main__ block
    current_version,   \* module-level current_version
    new_version,       \* module-level new_version
    patch_idx,         \* position of the for loop of prepare_patches
    repo_idx,          \* position of the for loop of prepare_pull_requests
    cmd_idx,           \* next git command of prepare_pull_request
    files,             \* working directory: filename -> content
    written,           \* filenames passed to write_patch, in call order
    git_log,           \* every subprocess.run of git, in call order
    worktree,          \* per repository: arguments of the git commands that succeeded
    log,               \* records emitted through logger
    exit_code,         \* process exit status, -1 while running
    error,             \* the exception that ended the run, "" if none
    probe              \* a template rendered outside a run: its inputs and results

vars == <<argv, template_files, pc, current_version, new_version, patch_idx,
          repo_idx, cmd_idx, files, written, git_log, worktree, log,
          exit_code, error, probe>>

----------------------------------------------------------------------------
(* Bounds of the explored inputs *)

\* longest sys.argv explored
MaxArgv == 4

\* strings that can appear as a command line argument
ArgStrings == {"1.0.0", "1.0.1", "1.0.0-to-1.0.0", "abc", "<current-version>"}

\* most fragments a rendered template text is built from
MaxFragments == 3

\* pieces of template text: the two tokens, their parts, and plain text
Fragments == {"<current-version>", "<new-version>", "<current-", "<new-",
              "version>", "<", "1.0.0", "x"}

\* texts a template file can hold
TemplateTexts == {"v<current-version>-><new-version>",
                  "-<current-version>+<current-version>",
                  "<new-<current-version>version>"}

\* results the git binary can give
GitResults == {[returncode |-> 0, stderr |-> ""],
               [returncode |-> 1, stderr |-> "error: failed"],
               [returncode |-> 128, stderr |-> "fatal: not a git repository"]}

----------------------------------------------------------------------------
(* The registry *)

repositories ==
    << [repository |-> "lightspeed-console", patch |-> "version_patches/console.patch"],
       [repository |-> "lightspeed-service", patch |-> "version_patches/service.patch"],
       [repository |-> "lightspeed-operator", patch |-> "version_patches/operator.patch"],
       [repository |-> "konflux-release-data", patch |-> "version_patches/konflux-release-data.patch"] >>

keys_reversed(d) == [n \in 1..Len(d) |-> d[Len(d) + 1 - n].repository]

\* dict.keys(): the keys in insertion order
keys(d) == [n \in 1..Len(d) |-> d[n].repository]

\* dict.items(): the (key, value) pairs in insertion order
items(d) == [n \in 1..Len(d) |-> <<d[n].repository, d[n].patch>>]

TemplatePaths == {repositories[n].patch : n \in 1..Len(repositories)}

----------------------------------------------------------------------------
(* str operations *)

CharAt(s, p) == SubSeq(s, p, p)

RECURSIVE str_replace_first(_, _, _)
str_replace_first(s, old, new) ==
    IF Len(s) < Len(old) THEN s
    ELSE IF SubSeq(s, 1, Len(old)) = old
         THEN new \o SubSeq(s, Len(old) + 1, Len(s))
         ELSE CharAt(s, 1) \o str_replace_first(SubSeq(s, 2, Len(s)), old, new)

\* str.replace(old, new) for a non-empty old: every non-overlapping
\* occurrence, found left to right, is replaced; the replacement is not rescanned
RECURSIVE str_replace(_, _, _)
str_replace(s, old, new) ==
    IF Len(s) < Len(old) THEN s
    ELSE IF SubSeq(s, 1, Len(old)) = old
         THEN new \o str_replace(SubSeq(s, Len(old) + 1, Len(s)), old, new)
         ELSE CharAt(s, 1) \o str_replace(SubSeq(s, 2, Len(s)), old, new)

\* str.find(c) for a single character, 1-based, 0 when absent
str_find(s, c) ==
    IF \E p \in 1..Len(s) : CharAt(s, p) = c
    THEN CHOOSE p \in 1..Len(s) :
            CharAt(s, p) = c /\ \A q \in 1..(p - 1) : CharAt(s, q) # c
    ELSE 0

\* str.split(c)
RECURSIVE str_split(_, _)
str_split(s, c) ==
    LET p == str_find(s, c)
    IN  IF p = 0 THEN <<s>>
        ELSE <<SubSeq(s, 1, p - 1)>> \o str_split(SubSeq(s, p + 1, Len(s)), c)

----------------------------------------------------------------------------
(* semantic_version.Version(version), strict parsing *)

Digits == {"0", "1", "2", "3", "4", "5", "6", "7", "8", "9"}

Letters == {"a", "b", "c", "d", "e", "f", "g", "h", "i", "j", "k", "l", "m",
            "n", "o", "p", "q", "r", "s", "t", "u", "v", "w", "x", "y", "z",
            "A", "B", "C", "D", "E", "F", "G", "H", "I", "J", "K", "L", "M",
            "N", "O", "P", "Q", "R", "S", "T", "U", "V", "W", "X", "Y", "Z"}

\* the character class [0-9a-zA-Z.-] of the pre-release and build parts
IdentifierChars == Digits \cup Letters \cup {".", "-"}

isdigit(x) == Len(x) > 0 /\ \A p \in 1..Len(x) : CharAt(x, p) \in Digits

has_leading_zero(x) == Len(x) > 1 /\ CharAt(x, 1) = "0" /\ isdigit(x)

\* major.minor.patch: three runs of digits without a leading zero
valid_core(x) ==
    LET parts == str_split(x, ".")
    IN  /\ Len(parts) = 3
        /\ \A n \in 1..3 : isdigit(parts[n]) /\ ~has_leading_zero(parts[n])

\* dot-separated identifiers, none empty; numeric ones without a leading
\* zero unless allowed (build metadata)
validate_identifiers(x, allow_leading_zeroes) ==
    LET parts == str_split(x, ".")
    IN  /\ Len(x) > 0
        /\ \A p \in 1..Len(x) : CharAt(x, p) \in IdentifierChars
        /\ \A n \in 1..Len(parts) :
              /\ Len(parts[n]) > 0
              /\ allow_leading_zeroes \/ ~has_leading_zero(parts[n])

\* TRUE iff Version(version) does not raise ValueError
IsSemanticVersion(version) ==
    LET plus == str_find(version, "+")
        head == IF plus = 0 THEN version ELSE SubSeq(version, 1, plus - 1)
        dash == str_find(head, "-")
        core == IF dash = 0 THEN head ELSE SubSeq(head, 1, dash - 1)
    IN  /\ valid_core(core)
        /\ dash # 0 => validate_identifiers(SubSeq(head, dash + 1, Len(head)), FALSE)
        /\ plus # 0 => validate_identifiers(SubSeq(version, plus + 1, Len(version)), TRUE)

check_version_format_lenient(version) == FALSE

\* check_version_format(version): TRUE iff it raises
check_version_format(version) == ~IsSemanticVersion(version)

check_cli_args_at_least(args) == Len(args) < 3

\* check_cli_args(args): TRUE iff it logs the usage and exits
check_cli_args(args) == Len(args) # 3

----------------------------------------------------------------------------
(* Patch generation *)

read_template_empty_on_error(patch) ==
    IF patch \in DOMAIN template_files
    THEN [raised |-> FALSE, value |-> template_files[patch]]
    ELSE [raised |-> FALSE, value |-> ""]

\* read_template(patch): open() raises when the file cannot be read
read_template(patch) ==
    IF patch \in DOMAIN template_files
    THEN [raised |-> FALSE, value |-> template_files[patch]]
    ELSE [raised |-> TRUE, value |-> ""]

patch_name(repository, current, new) ==
    repository \o "-bump-from-" \o current \o "-to-" \o new \o ".patch"

render_first_only(template, current, new) ==
    str_replace_first(str_replace_first(template, "<current-version>", current),
                      "<new-version>", new)

\* the content computed in prepare_patches
render(template, current, new) ==
    str_replace(str_replace(template, "<current-version>", current),
                "<new-version>", new)

\* open(filename, "w") followed by write(content)
write_patch(fs, filename, content) ==
    [f \in (DOMAIN fs) \cup {filename} |-> IF f = filename THEN content ELSE fs[f]]

----------------------------------------------------------------------------
(* Git commands.  Each function of the source that drives git is the       *)
(* sequence of its git_command calls: the arguments, the message           *)
(* check_return_code logs on failure, the lines logged once the call       *)
(* succeeded, and the orchestration state the function implements.         *)

Cmd(state, arguments, error_message, ok) ==
    [state |-> state, arguments |-> arguments,
     error_message |-> error_message, ok |-> ok]

check_return_code_code_one(result) == result.returncode = 1

\* check_return_code(result, error_message): TRUE iff it logs and raises
check_return_code(result) == result.returncode # 0

\* the command line handed to subprocess.run
git_command(target_repository, arguments) ==
    <<"git", "-C", target_repository>> \o arguments

sync_repository(target_repository) ==
    << Cmd("SYNC", <<"checkout", "main">>, "git checkout to main branch failed",
           <<"checkout to main branch: ok">>),
       Cmd("SYNC", <<"fetch", "origin">>, "git fetch failed",
           <<"fetch from origin repository: ok">>),
       Cmd("SYNC", <<"rebase", "origin/main">>, "git rebase to origin/main failed",
           <<"rebase to origin/main: ok", "sync local repository finished">>) >>

create_branch(target_repository, branch_name) ==
    << Cmd("BRANCH", <<"checkout", "-b", branch_name>>,
           "cannot create branch named " \o branch_name,
           <<"branch " \o branch_name \o " has been created">>) >>

check_if_applicable(target_repository, patch_file) ==
    << Cmd("CHECK-APPLICABLE", <<"apply", "--check", "../" \o patch_file>>,
           "cannot apply patch " \o patch_file \o " (dry run)",
           <<"check if patch is applicable: ok">>) >>

apply_patch(target_repository, patch_file) ==
    << Cmd("APPLY", <<"apply", "../" \o patch_file>>,
           "cannot apply patch " \o patch_file \o " (real apply)",
           <<"apply patch: ok">>) >>

commit_changes(target_repository, new) ==
    << Cmd("COMMIT", <<"add", ".">>,
           "cannot add changes into reporitory " \o target_repository, <<>>),
       Cmd("COMMIT", <<"commit", "-m", "Bump to version " \o new>>,
           "cannot commit changes into reporitory " \o target_repository,
           <<"commit changes: ok">>) >>

push_pr(target_repository, branch_name) ==
    << Cmd("PUSH", <<"push", "origin", branch_name>>,
           "cannot push the pull request", <<"push the pull request: ok">>) >>

\* the calls prepare_pull_request makes: all but commit_changes are
\* commented out in the source
prepare_pull_request(target_repository, current, new) ==
    commit_changes(target_repository, new)

patches_done_after_first(idx) == idx >= 1

\* the for loop of prepare_patches ends after the last item
patches_done(idx) == idx = Len(items(repositories))

----------------------------------------------------------------------------
(* The run *)

Info(msg) == [level |-> "INFO", msg |-> msg]

Error(msg) == [level |-> "ERROR", msg |-> msg]

Infos(msgs) == [n \in 1..Len(msgs) |-> Info(msgs[n])]

ArgvSet == UNION {[1..n -> ArgStrings \cup {"bump_up_version.py"}] : n \in 1..MaxArgv}

TemplateFileSets == UNION {[D -> TemplateTexts] : D \in SUBSET TemplatePaths}

NoProbe == [stage |-> "off", template |-> "", current |-> "", new |-> "",
            once |-> "", twice |-> ""]

Init ==
    /\ argv \in {a \in ArgvSet : a[1] = "bump_up_version.py"
                                 /\ \A n \in 2..Len(a) : a[n] \in ArgStrings}
    /\ template_files \in TemplateFileSets
    /\ pc = "check_cli_args"
    /\ current_version = ""
    /\ new_version = ""
    /\ patch_idx = 1
    /\ repo_idx = 1
    /\ cmd_idx = 1
    /\ files = [f \in {} |-> ""]
    /\ written = <<>>
    /\ git_log = <<>>
    /\ worktree = [r \in {repositories[n].repository : n \in 1..Len(repositories)} |-> <<>>]
    /\ log = <<>>
    /\ exit_code = -1
    /\ error = ""
    /\ probe = NoProbe

\* an exception nobody catches, or sys.exit(1): the interpreter exits with 1
Abort(exception) ==
    /\ pc' = "exit"
    /\ exit_code' = 1
    /\ error' = exception

\* line 187
CheckCliArgs ==
    /\ pc = "check_cli_args"
    /\ IF check_cli_args(argv)
       THEN /\ log' = Append(log, Error("Usage: python bump_up_version.py <current-version> <new-version>"))
            /\ Abort("SystemExit")
       ELSE /\ pc' = "check_current_version"
            /\ UNCHANGED <<log, exit_code, error>>
    /\ UNCHANGED <<argv, template_files, current_version, new_version, patch_idx,
                   repo_idx, cmd_idx, files, written, git_log, worktree, probe>>

\* lines 189-191
CheckCurrentVersion ==
    /\ pc = "check_current_version"
    /\ current_version' = argv[2]
    /\ IF check_version_format(argv[2])
       THEN /\ Abort("ValueError")
            /\ UNCHANGED log
       ELSE /\ log' = Append(log, Info("current version: " \o argv[2]))
            /\ pc' = "check_new_version"
            /\ UNCHANGED <<exit_code, error>>
    /\ UNCHANGED <<argv, template_files, new_version, patch_idx,
                   repo_idx, cmd_idx, files, written, git_log, worktree, probe>>

\* lines 193-195, and the entry of prepare_patches
CheckNewVersion ==
    /\ pc = "check_new_version"
    /\ new_version' = argv[3]
    /\ IF check_version_format(argv[3])
       THEN /\ Abort("ValueError")
            /\ UNCHANGED log
       ELSE /\ log' = log \o <<Info("new version:     " \o argv[3]),
                               Info("started patches generation")>>
            /\ pc' = "prepare_patches"
            /\ UNCHANGED <<exit_code, error>>
    /\ UNCHANGED <<argv, template_files, current_version, patch_idx,
                   repo_idx, cmd_idx, files, written, git_log, worktree, probe>>

\* one iteration of the loop of prepare_patches
PreparePatches ==
    /\ pc = "prepare_patches"
    /\ LET item == items(repositories)[patch_idx]
           repository == item[1]
           template == read_template(item[2])
           filename == patch_name(repository, current_version, new_version)
           content == render(template.value, current_version, new_version)
           preparing == Info("preparing patch for repository '" \o repository \o "'")
       IN  IF template.raised
           THEN /\ log' = Append(log, preparing)
                /\ Abort("FileNotFoundError")
                /\ UNCHANGED <<files, written, patch_idx>>
           ELSE /\ files' = write_patch(files, filename, content)
                /\ written' = Append(written, filename)
                /\ IF patches_done(patch_idx)
                   THEN /\ log' = log \o <<preparing,
                                           Info("creating patch file: " \o filename),
                                           Info("finished patches generation")>>
                        /\ pc' = "prepare_pull_requests"
                        /\ UNCHANGED patch_idx
                   ELSE /\ log' = log \o <<preparing,
                                           Info("creating patch file: " \o filename)>>
                        /\ patch_idx' = patch_idx + 1
                        /\ UNCHANGED pc
                /\ UNCHANGED <<exit_code, error>>
    /\ UNCHANGED <<argv, template_files, current_version, new_version,
                   repo_idx, cmd_idx, git_log, worktree, probe>>

\* one git_command call of prepare_pull_request and its check_return_code,
\* inside the loop of prepare_pull_requests
PreparePullRequests ==
    /\ pc = "prepare_pull_requests"
    /\ \E result \in GitResults :
         LET repository == keys(repositories)[repo_idx]
             commands == prepare_pull_request(repository, current_version, new_version)
             cmd == commands[cmd_idx]
         IN  /\ git_log' = Append(git_log,
                                  [repository |-> repository,
                                   state |-> cmd.state,
                                   arguments |-> cmd.arguments,
                                   command |-> git_command(repository, cmd.arguments),
                                   returncode |-> result.returncode,
                                   stderr |-> result.stderr])
             /\ IF check_return_code(result)
                THEN /\ log' = log \o <<Error(cmd.error_message), Error(result.stderr)>>
                     /\ Abort("Exception")
                     /\ UNCHANGED <<worktree, repo_idx, cmd_idx>>
                ELSE /\ log' = log \o Infos(cmd.ok)
                     /\ worktree' = [worktree EXCEPT
                                        ![repository] = Append(@, cmd.arguments)]
                     /\ error' = error
                     /\ IF cmd_idx < Len(commands)
                        THEN /\ cmd_idx' = cmd_idx + 1
                             /\ UNCHANGED <<repo_idx, pc, exit_code>>
                        ELSE IF repo_idx < Len(keys(repositories))
                             THEN /\ repo_idx' = repo_idx + 1
                                  /\ cmd_idx' = 1
                                  /\ UNCHANGED <<pc, exit_code>>
                             ELSE /\ pc' = "exit"
                                  /\ exit_code' = 0
                                  /\ UNCHANGED <<repo_idx, cmd_idx>>
    /\ UNCHANGED <<argv, template_files, current_version, new_version,
                   patch_idx, files, written, probe>>

Next ==
    \/ CheckCliArgs
    \/ CheckCurrentVersion
    \/ CheckNewVersion
    \/ PreparePatches
    \/ PreparePullRequests

Spec == Init /\ [][Next]_vars

----------------------------------------------------------------------------
(* Rendering on its own: lines 80-83 applied to a template text built from *)
(* fragments, with the two version strings validated as __main__ does,     *)
(* and then applied again to its own output.                               *)

RECURSIVE Concat(_)
Concat(seq) == IF seq = <<>> THEN "" ELSE Head(seq) \o Concat(Tail(seq))

FragmentTexts == {Concat(fs) : fs \in UNION {[1..n -> Fragments] : n \in 1..MaxFragments}}

InitRender ==
    /\ probe \in [stage : {"input"}, template : FragmentTexts,
                  current : ArgStrings, new : ArgStrings,
                  once : {""}, twice : {""}]
    /\ argv = <<"bump_up_version.py">>
    /\ template_files = [f \in {} |-> ""]
    /\ pc = "off"
    /\ current_version = ""
    /\ new_version = ""
    /\ patch_idx = 1
    /\ repo_idx = 1
    /\ cmd_idx = 1
    /\ files = [f \in {} |-> ""]
    /\ written = <<>>
    /\ git_log = <<>>
    /\ worktree = [r \in {repositories[n].repository : n \in 1..Len(repositories)} |-> <<>>]
    /\ log = <<>>
    /\ exit_code = -1
    /\ error = ""

Unprobed == <<argv, template_files, pc, current_version, new_version, patch_idx,
              repo_idx, cmd_idx, files, written, git_log, worktree, log,
              exit_code, error>>

\* lines 190 and 194
ProbeValidate ==
    /\ probe.stage = "input"
    /\ probe' = [probe EXCEPT !.stage =
                    IF check_version_format(probe.current) \/ check_version_format(probe.new)
                    THEN "rejected" ELSE "validated"]
    /\ UNCHANGED Unprobed

\* lines 81-83
ProbeRender ==
    /\ probe.stage = "validated"
    /\ probe' = [probe EXCEPT !.stage = "once",
                              !.once = render(probe.template, probe.current, probe.new)]
    /\ UNCHANGED Unprobed

\* lines 81-83 applied to the content they produced
ProbeRenderAgain ==
    /\ probe.stage = "once"
    /\ probe' = [probe EXCEPT !.stage = "twice",
                              !.twice = render(probe.once, probe.current, probe.new)]
    /\ UNCHANGED Unprobed

NextRender ==
    \/ ProbeValidate
    \/ ProbeRender
    \/ ProbeRenderAgain

RenderSpec == InitRender /\ [][NextRender]_vars

----------------------------------------------------------------------------
(* Properties *)

RepoCount == Len(repositories)

RepoName(n) == repositories[n].repository

RepoIndex(name) == CHOOSE n \in 1..RepoCount : RepoName(n) = name

ArgsValid ==
    /\ Len(argv) = 3
    /\ IsSemanticVersion(argv[2])
    /\ IsSemanticVersion(argv[3])

\* the git calls made for one repository, in call order
GitCallsOf(name) == SelectSeq(git_log, LAMBDA call : call.repository = name)

\* the six states of the orchestration and the functions implementing them
SixStates(target_repository, current, new) ==
    LET branch_name == "bump-from-" \o current \o "-to-" \o new
        patch == patch_name(target_repository, current, new)
    IN  sync_repository(target_repository)
        \o create_branch(target_repository, branch_name)
        \o check_if_applicable(target_repository, patch)
        \o apply_patch(target_repository, patch)
        \o commit_changes(target_repository, new)
        \o push_pr(target_repository, branch_name)

StateOrder == <<"SYNC", "BRANCH", "CHECK-APPLICABLE", "APPLY", "COMMIT", "PUSH">>

StateRank(state) == CHOOSE n \in 1..Len(StateOrder) : StateOrder[n] = state

\* C1: every repository runs SYNC, BRANCH, CHECK-APPLICABLE, APPLY, COMMIT,
\* PUSH in this order: a git command of a state is invoked only after all
\* commands of the earlier states returned zero for that repository, and a
\* run in which every git command succeeds has passed through all six
\* states for each repository.
C1_SixStatesInOrder ==
    /\ \A p \in 1..Len(git_log) :
          LET call == git_log[p]
              expected == SixStates(call.repository, current_version, new_version)
          IN  \A n \in 1..Len(expected) :
                 StateRank(expected[n].state) < StateRank(call.state)
                 => \E q \in 1..(p - 1) :
                       /\ git_log[q].repository = call.repository
                       /\ git_log[q].arguments = expected[n].arguments
                       /\ git_log[q].returncode = 0
    /\ (pc = "exit" /\ exit_code = 0)
       => \A r \in 1..RepoCount :
             LET calls == GitCallsOf(RepoName(r))
                 expected == SixStates(RepoName(r), current_version, new_version)
             IN  /\ Len(calls) = Len(expected)
                 /\ \A n \in 1..Len(expected) :
                       /\ calls[n].state = expected[n].state
                       /\ calls[n].arguments = expected[n].arguments

\* C2: no patch file is written and no git command is invoked unless
\* sys.argv has exactly 3 entries and both version arguments are valid
\* semantic versions; a run with a wrong argument count or a malformed
\* version ends with a nonzero exit status and nothing written.
C2_NoSideEffectBeforeValidation ==
    /\ (DOMAIN files # {} \/ written # <<>> \/ git_log # <<>>) => ArgsValid
    /\ (pc = "exit" /\ ~ArgsValid)
       => /\ exit_code # 0
          /\ DOMAIN files = {}
          /\ written = <<>>
          /\ git_log = <<>>
    /\ (~ArgsValid /\ pc # "exit")
       => pc \in {"check_cli_args", "check_current_version", "check_new_version"}

C2_Witness ==
    /\ pc = "exit"
    /\ exit_code = 1
    /\ Len(argv) = 3
    /\ IsSemanticVersion(argv[2])
    /\ ~IsSemanticVersion(argv[3])
    /\ DOMAIN files = {}

\* C3: a git command that returns nonzero makes check_return_code log the
\* error message and the captured stderr at error level and raise; it is
\* the last git command of the run, and no git command is invoked twice
\* for the same repository.
C3_GitFailureIsTerminal ==
    /\ \A p \in 1..Len(git_log) :
          git_log[p].returncode # 0
          => /\ p = Len(git_log)
             /\ pc = "exit"
             /\ exit_code = 1
             /\ error = "Exception"
             /\ Len(log) >= 2
             /\ log[Len(log)] = [level |-> "ERROR", msg |-> git_log[p].stderr]
             /\ log[Len(log) - 1].level = "ERROR"
             /\ \E cmd \in {SixStates(git_log[p].repository, current_version, new_version)[n] :
                              n \in 1..Len(SixStates(git_log[p].repository, current_version, new_version))} :
                   /\ cmd.arguments = git_log[p].arguments
                   /\ cmd.error_message = log[Len(log) - 1].msg
    /\ \A p, q \in 1..Len(git_log) :
          (git_log[p].repository = git_log[q].repository
             /\ git_log[p].arguments = git_log[q].arguments) => p = q

C3_Witness ==
    /\ Len(git_log) >= 4
    /\ git_log[Len(git_log)].returncode # 0
    /\ git_log[Len(git_log)].repository = RepoName(2)
    /\ pc = "exit"

\* C4: when a repository's sequence succeeded fully and the COMMIT state
\* of the next repository fails, the first repository still has its branch
\* and its commit, and the second repository holds exactly the results of
\* the states completed before the failure: nothing of COMMIT or of a
\* later state, and nothing of an earlier state missing.
C4_NoRollbackAcrossRepositories ==
    \A r \in 2..RepoCount :
       LET first == RepoName(r - 1)
           second == RepoName(r)
           calls == GitCallsOf(second)
       IN  ( /\ pc = "exit"
             /\ error = "Exception"
             /\ calls # <<>>
             /\ calls[Len(calls)].state = "COMMIT"
             /\ calls[Len(calls)].returncode # 0 )
           => /\ \E n \in 1..Len(worktree[first]) :
                    /\ worktree[first][n][1] = "checkout"
                    /\ worktree[first][n][2] = "-b"
              /\ \E n \in 1..Len(worktree[first]) : worktree[first][n][1] = "commit"
              /\ \A n \in 1..Len(worktree[second]) :
                    worktree[second][n][1] \notin {"add", "commit", "push"}
              /\ \A n \in 1..Len(calls) :
                    StateRank(calls[n].state) < StateRank("COMMIT")
                    => \E m \in 1..Len(worktree[second]) :
                          worktree[second][m] = calls[n].arguments

\* the content each explored template text must yield, written out by hand
ExpectedContent(text, current, new) ==
    CASE text = "v<current-version>-><new-version>" -> "v" \o current \o "->" \o new
      [] text = "-<current-version>+<current-version>" -> "-" \o current \o "+" \o current
      [] text = "<new-<current-version>version>" -> "<new-" \o current \o "version>"

\* C5: for every repository r with template t, the file
\* '<r>-bump-from-<current>-to-<new>.patch' holds t with every
\* '<current-version>' replaced by the current version and every
\* '<new-version>' by the new version, both verbatim.
C5_PatchNameAndContent ==
    /\ \A n \in 1..Len(written) :
          LET name == RepoName(n) \o "-bump-from-" \o argv[2] \o "-to-" \o argv[3] \o ".patch"
          IN  /\ written[n] = name
              /\ name \in DOMAIN files
              /\ files[name] = ExpectedContent(template_files[repositories[n].patch],
                                               argv[2], argv[3])
    /\ DOMAIN files = {written[n] : n \in 1..Len(written)}

C5_Witness ==
    /\ argv = <<"bump_up_version.py", "1.0.0", "1.0.1">>
    /\ "version_patches/console.patch" \in DOMAIN template_files
    /\ template_files["version_patches/console.patch"] = "v<current-version>-><new-version>"
    /\ "lightspeed-console-bump-from-1.0.0-to-1.0.1.patch" \in DOMAIN files
    /\ files["lightspeed-console-bump-from-1.0.0-to-1.0.1.patch"] = "v1.0.0->1.0.1"
    /\ Len(written) = RepoCount

\* C6: for validated version strings, rendering the rendered content again
\* with the same values gives the same content.
C6_RenderIdempotent ==
    probe.stage = "twice" => probe.twice = probe.once

C6_Witness ==
    /\ probe.stage = "twice"
    /\ probe.template = "<new-<current-version>version>"
    /\ probe.once # probe.template

\* patch_name for every triple of a registry key and two valid versions
ValidVersions == {v \in ArgStrings : IsSemanticVersion(v)}

\* C7: two distinct triples (repository, current, new) of a registry key
\* and valid semantic versions never get the same patch filename: the
\* name of a file written in a run belongs to no other triple.
C7_PatchNameInjective ==
    \A n \in 1..Len(written) :
       \A r \in 1..RepoCount, c \in ValidVersions, v \in ValidVersions :
          <<RepoName(r), c, v>> # <<RepoName(n), current_version, new_version>>
          => patch_name(RepoName(r), c, v) # written[n]

\* C8: both loops go through the repositories one after another in the
\* order of the registry: patches are written in that order, every git
\* command of a repository comes before the first git command of the
\* next, and a complete run has visited the same repositories in the same
\* order in both loops.
C8_DeclarationOrder ==
    /\ \A n \in 1..Len(written) :
          written[n] = patch_name(RepoName(n), current_version, new_version)
    /\ git_log # <<>> => git_log[1].repository = RepoName(1)
    /\ \A p \in 1..(Len(git_log) - 1) :
          LET here == RepoIndex(git_log[p].repository)
              there == RepoIndex(git_log[p + 1].repository)
          IN  /\ there \in {here, here + 1}
              /\ there = here + 1 => git_log[p].returncode = 0
    /\ (pc = "exit" /\ exit_code = 0)
       => /\ Len(written) = RepoCount
          /\ \A n \in 1..RepoCount : GitCallsOf(RepoName(n)) # <<>>

C8_Witness ==
    /\ pc = "exit"
    /\ exit_code = 0
    /\ Len(written) = RepoCount
    /\ git_log[Len(git_log)].repository = RepoName(RepoCount)

\* C9: when the template of repository k cannot be read, the run stops
\* with the I/O error: no patch is written for k or a later repository,
\* the patches of the repositories before k stay as written, and no git
\* command is invoked.
C9_MissingTemplateStopsRun ==
    /\ error = "FileNotFoundError"
       => \E k \in 1..RepoCount :
             /\ repositories[k].patch \notin DOMAIN template_files
             /\ \A m \in 1..(k - 1) : repositories[m].patch \in DOMAIN template_files
             /\ Len(written) = k - 1
             /\ DOMAIN files = {patch_name(RepoName(m), current_version, new_version) :
                                  m \in 1..(k - 1)}
             /\ \A m \in 1..(k - 1) :
                   files[patch_name(RepoName(m), current_version, new_version)]
                      = render(template_files[repositories[m].patch],
                               current_version, new_version)
             /\ git_log = <<>>
             /\ pc = "exit"
             /\ exit_code = 1
    /\ (pc = "exit" /\ ArgsValid /\ DOMAIN template_files # TemplatePaths)
       => error = "FileNotFoundError"
    /\ \A n \in 1..Len(written) : repositories[n].patch \in DOMAIN template_files

C9_Witness ==
    /\ error = "FileNotFoundError"
    /\ Len(written) = 2
    /\ repositories[3].patch \notin DOMAIN template_files
    /\ repositories[4].patch \in DOMAIN template_files

\* C10: a git command is invoked only after the patch of every repository
\* has been written: whenever a git command has run, each repository's
\* patch file exists with its rendered content.
C10_PatchesBeforePullRequests ==
    (git_log # <<>> \/ pc = "prepare_pull_requests")
    => \A n \in 1..RepoCount :
          LET name == patch_name(RepoName(n), current_version, new_version)
          IN  /\ repositories[n].patch \in DOMAIN template_files
              /\ name \in DOMAIN files
              /\ files[name] = render(template_files[repositories[n].patch],
                                      current_version, new_version)

C10_Witness ==
    /\ Len(git_log) = 1
    /\ git_log[1].repository = RepoName(1)
    /\ Len(written) = RepoCount

====
